---- MODULE Spec2Model ----
(***************************************************************************)
(* The bicycle-accident pipeline of EDA.py (the one-shot report) and       *)
(* dashboard.py (the Streamlit dashboard): read two CSV files, inner-join  *)
(* them on Accident_Index, derive Year/Month/Hour/Weekday, filter, and     *)
(* aggregate.                                                              *)
(*                                                                         *)
(* A CSV text cell is a sequence of one-character strings (Date, Time) or  *)
(* a string (keys and categorical columns).  read_csv turns an empty cell  *)
(* into a missing value: <<>> for Date/Time cells, NA for string columns.  *)
(* A missing number (the NaN of a float column) is NaN.  A Timestamp is    *)
(* <<year, month, day>> or <<hour, minute>>, and NaT is <<>>.              *)
(***************************************************************************)
EXTENDS Integers, Sequences, FiniteSets, TLC

VARIABLES
    accidents,      \* rows of Accidents.csv, in file order
    bikers,         \* rows of Bikers.csv, in file order
    pc,             \* position of the running script
    err,            \* source line of the exception that ended the run, 0 if none
    df,             \* the canonical table of the current run
    severity_dist,  \* EDA.py: df['Severity'].value_counts()
    yearly,         \* EDA.py: df.groupby('Year').size()
    hourly,         \* EDA.py: df.groupby('Hour').size()
    severity_counts,\* EDA.py: df['Severity'].value_counts().reindex(severity_order)
    cache,          \* dashboard.py: st.cache_data entries of load_data
    loads,          \* dashboard.py: executions of the body of load_data so far
    widgets,        \* dashboard.py: the sidebar's widget values of the session
    filtered,       \* dashboard.py: the filtered table
    fatality_rate,  \* dashboard.py: the Fatality Rate metric
    weekday,        \* dashboard.py: filtered['Weekday'].value_counts().reindex(day_order)
    clicks          \* dashboard.py: number of user interactions so far

vars == <<accidents, bikers, pc, err, df, severity_dist, yearly, hourly, severity_counts,
          cache, loads, widgets, filtered, fatality_rate, weekday, clicks>>

(***************************************************************************)
(* Bounds of the model.                                                    *)
(***************************************************************************)
MaxRows == 3            \* rows per source file
MaxInteractions == 2    \* widget changes per dashboard session
MaxTimeLen == 5         \* characters of a Time cell in SpecDerive

(***************************************************************************)
(* Missing values.                                                         *)
(***************************************************************************)
NA == "NaN"
NaN == -1
NaT == <<>>

(***************************************************************************)
(* Generic sequence helpers.                                               *)
(***************************************************************************)
Range(s) == {s[i] : i \in 1..Len(s)}

RECURSIVE SeqFilter(_, _)
\* the subsequence of s at the indexes in keep, in order
SeqFilter(s, keep) ==
    IF s = <<>> THEN <<>>
    ELSE LET rest == SeqFilter(Tail(s), {i - 1 : i \in keep \ {1}})
         IN  IF 1 \in keep THEN <<Head(s)>> \o rest ELSE rest

RECURSIVE Flatten(_)
Flatten(ss) == IF ss = <<>> THEN <<>> ELSE Head(ss) \o Flatten(Tail(ss))

RECURSIVE SumOver(_, _)
\* the sum of f[k] over k in S
SumOver(f, S) ==
    IF S = {} THEN 0
    ELSE LET k == CHOOSE x \in S : TRUE IN f[k] + SumOver(f, S \ {k})

SetMin(S) == CHOOSE x \in S : \A y \in S : x <= y
SetMax(S) == CHOOSE x \in S : \A y \in S : x >= y

(***************************************************************************)
(* Text to numbers.                                                        *)
(***************************************************************************)
Digits == {"0", "1", "2", "3", "4", "5", "6", "7", "8", "9"}

DigitVal(c) ==
    CASE c = "0" -> 0 [] c = "1" -> 1 [] c = "2" -> 2 [] c = "3" -> 3
      [] c = "4" -> 4 [] c = "5" -> 5 [] c = "6" -> 6 [] c = "7" -> 7
      [] c = "8" -> 8 [] c = "9" -> 9

RECURSIVE Num(_)
\* the value of a sequence of digits
Num(ds) == IF ds = <<>> THEN 0
           ELSE 10 * Num(SubSeq(ds, 1, Len(ds) - 1)) + DigitVal(ds[Len(ds)])

AllDigits(s) == \A i \in 1..Len(s) : s[i] \in Digits

(***************************************************************************)
(* pd.to_datetime(df['Time'], format='%H:%M', errors='coerce').            *)
(* The format compiles to the regular expression                           *)
(*   (?P<H>2[0-3]|[0-1]\d|\d):(?P<M>[0-5]\d|\d)                            *)
(* which must match the whole cell; anything else is coerced to NaT.       *)
(***************************************************************************)
\* mutant of MatchH: any one or two digits are an hour
MatchHAnyDigits(h) == AllDigits(h) /\ Len(h) \in {1, 2}

MatchH(h) ==
    /\ AllDigits(h)
    /\ \/ Len(h) = 1
       \/ Len(h) = 2 /\ \/ h[1] = "2" /\ h[2] \in {"0", "1", "2", "3"}
                        \/ h[1] \in {"0", "1"}

MatchM(m) ==
    /\ AllDigits(m)
    /\ \/ Len(m) = 1
       \/ Len(m) = 2 /\ m[1] \in {"0", "1", "2", "3", "4", "5"}

\* the positions k of a ':' that splits cell into an %H part and an %M part
TimeSplits(cell) ==
    {k \in 1..Len(cell) : /\ cell[k] = ":"
                          /\ MatchH(SubSeq(cell, 1, k - 1))
                          /\ MatchM(SubSeq(cell, k + 1, Len(cell)))}

ToDatetimeHM(cell) ==
    IF TimeSplits(cell) = {} THEN NaT
    ELSE LET k == CHOOSE x \in TimeSplits(cell) : TRUE
         IN  <<Num(SubSeq(cell, 1, k - 1)), Num(SubSeq(cell, k + 1, Len(cell)))>>

\* .dt.hour
DtHour(ts) == IF ts = NaT THEN NaN ELSE ts[1]

(***************************************************************************)
(* pd.to_datetime(df['Date']): errors='raise' is the default.  The files   *)
(* hold ISO dates, YYYY-MM-DD; a missing cell becomes NaT and any other    *)
(* text that is no date raises.                                            *)
(***************************************************************************)
IsLeap(y) == (y % 4 = 0 /\ y % 100 # 0) \/ y % 400 = 0

DaysInMonth(y, m) ==
    IF m = 2 THEN (IF IsLeap(y) THEN 29 ELSE 28)
    ELSE IF m \in {4, 6, 9, 11} THEN 30 ELSE 31

IsIsoDate(cell) ==
    /\ Len(cell) = 10
    /\ cell[5] = "-" /\ cell[8] = "-"
    /\ AllDigits(SubSeq(cell, 1, 4))
    /\ AllDigits(SubSeq(cell, 6, 7))
    /\ AllDigits(SubSeq(cell, 9, 10))
    /\ Num(SubSeq(cell, 1, 4)) >= 1
    /\ Num(SubSeq(cell, 6, 7)) \in 1..12
    /\ Num(SubSeq(cell, 9, 10)) >= 1
    /\ Num(SubSeq(cell, 9, 10))
          <= DaysInMonth(Num(SubSeq(cell, 1, 4)), Num(SubSeq(cell, 6, 7)))

\* whether to_datetime accepts the cell (a missing cell is accepted, as NaT)
DateParses(cell) == cell = <<>> \/ IsIsoDate(cell)

\* the Timestamp of an accepted cell
ToDatetime(cell) ==
    IF cell = <<>> THEN NaT
    ELSE <<Num(SubSeq(cell, 1, 4)), Num(SubSeq(cell, 6, 7)), Num(SubSeq(cell, 9, 10))>>

DtYear(ts) == IF ts = NaT THEN NaN ELSE ts[1]
DtMonth(ts) == IF ts = NaT THEN NaN ELSE ts[2]

\* .dt.day_name(): the day of the week of a Gregorian date
DayNames == <<"Sunday", "Monday", "Tuesday", "Wednesday", "Thursday", "Friday", "Saturday">>
MonthOffsets == <<0, 3, 2, 5, 0, 3, 5, 1, 4, 6, 2, 4>>

DtDayName(ts) ==
    IF ts = NaT THEN NA
    ELSE LET y == IF ts[2] < 3 THEN ts[1] - 1 ELSE ts[1]
         IN  DayNames[((y + (y \div 4) - (y \div 100) + (y \div 400)
                          + MonthOffsets[ts[2]] + ts[3]) % 7) + 1]

(***************************************************************************)
(* pd.merge(accidents, bikers, on='Accident_Index', how='inner'): for each *)
(* left row in order, one output row per right row with an equal key, in   *)
(* right order.  pandas matches a missing key with a missing key.          *)
(***************************************************************************)
JoinRow(a, b) ==
    [Accident_Index |-> a.Accident_Index,
     Date |-> a.Date, Time |-> a.Time,
     Weather_conditions |-> a.Weather_conditions,
     Number_of_Casualties |-> a.Number_of_Casualties,
     Gender |-> b.Gender, Severity |-> b.Severity, Age_Grp |-> b.Age_Grp]

\* a lookup that keeps only the first right row of a key
MatchesFirst(a, right) ==
    SeqFilter(right, {j \in 1..Len(right) :
        /\ right[j].Accident_Index = a.Accident_Index
        /\ \A h \in 1..(j - 1) : right[h].Accident_Index # a.Accident_Index})

Matches(a, right) ==
    SeqFilter(right, {j \in 1..Len(right) : right[j].Accident_Index = a.Accident_Index})

\* read_csv infers the dtype of a column from all of its cells: object when
\* the file has no row or one cell holds a text, float64 when the file has
\* rows and every cell is empty
KeyDtype(table) ==
    IF Len(table) > 0 /\ \A i \in 1..Len(table) : table[i].Accident_Index = NA
    THEN "float64"
    ELSE "object"

\* pd.merge checks the dtypes of the two key columns when both tables have
\* rows, and raises ValueError on a float64 column against an object column
MergeRaises(left, right) ==
    /\ Len(left) > 0
    /\ Len(right) > 0
    /\ KeyDtype(left) # KeyDtype(right)

\* what a call that raises gives in place of a table
ValueError == [exception |-> "ValueError"]

Merge(left, right) ==
    IF MergeRaises(left, right)
    THEN ValueError
    ELSE Flatten([i \in 1..Len(left) |->
                    [j \in 1..Len(Matches(left[i], right)) |->
                        JoinRow(left[i], Matches(left[i], right)[j])]])

(***************************************************************************)
(* The Field Deriver: the five assignments after the merge.                *)
(***************************************************************************)
DeriveRow(r) ==
    LET date == ToDatetime(r.Date)
    IN  [Accident_Index |-> r.Accident_Index,
         Date |-> date, Time |-> r.Time,
         Weather_conditions |-> r.Weather_conditions,
         Number_of_Casualties |-> r.Number_of_Casualties,
         Gender |-> r.Gender, Severity |-> r.Severity, Age_Grp |-> r.Age_Grp,
         Year |-> DtYear(date), Month |-> DtMonth(date),
         Hour |-> DtHour(ToDatetimeHM(r.Time)),
         Weekday |-> DtDayName(date)]

\* whether pd.to_datetime(df['Date']) returns rather than raises
DatesParse(joined) == \A i \in 1..Len(joined) : DateParses(joined[i].Date)

DeriveFields(joined) == [i \in 1..Len(joined) |-> DeriveRow(joined[i])]

(***************************************************************************)
(* The Aggregator: value_counts() and groupby(col).size().  Both drop the  *)
(* rows whose value in the grouping column is missing (dropna=True is the  *)
(* default) and map each value that occurs to its number of rows.          *)
(***************************************************************************)
NumericColumns == {"Year", "Month", "Hour", "Number_of_Casualties"}

IsMissing(col, v) == IF col \in NumericColumns THEN v = NaN ELSE v = NA

\* the indexes of the rows whose col is present
Present(table, col) == {i \in 1..Len(table) : ~IsMissing(col, table[i][col])}

CountRows(table, col, v) ==
    Cardinality({i \in Present(table, col) : table[i][col] = v})

ValueCounts(table, col) ==
    [v \in {table[i][col] : i \in Present(table, col)} |-> CountRows(table, col, v)]

\* mutant of GroupBySize: dropna=False, the missing value is a group of its own
GroupBySizeKeepNa(table, col) ==
    [v \in {table[i][col] : i \in 1..Len(table)} |->
        Cardinality({i \in 1..Len(table) : table[i][col] = v})]

GroupBySize(table, col) ==
    [v \in {table[i][col] : i \in Present(table, col)} |-> CountRows(table, col, v)]

\* the sum of the counts of a grouped result
Total(counts) == SumOver(counts, DOMAIN counts)

\* Series.reindex(order) with no fill_value: one entry per label of order, in
\* that order; a label the Series does not have gets NaN
Reindex(counts, order) ==
    [i \in 1..Len(order) |->
        [index |-> order[i],
         count |-> IF order[i] \in DOMAIN counts THEN counts[order[i]] ELSE NaN]]

(***************************************************************************)
(* The two source files.  A session reads up to MaxRows rows of each, in   *)
(* file order.  The rows cover: a key shared by several rows, a key in one *)
(* file only, a missing key, and a missing or malformed cell per column.   *)
(***************************************************************************)
Date1 == <<"2", "0", "1", "0", "-", "0", "3", "-", "0", "1">>
Date2 == <<"2", "0", "1", "8", "-", "1", "2", "-", "3", "1">>
Date4 == <<"2", "0", "0", "9", "-", "0", "7", "-", "0", "4">>
BadDate == <<"b", "a", "d">>

AccidentsFile ==
    << [Accident_Index |-> "A1", Date |-> Date1, Time |-> <<"0", "7", ":", "0", "5">>,
        Weather_conditions |-> "Clear", Number_of_Casualties |-> 1],
       [Accident_Index |-> "A1", Date |-> Date2, Time |-> <<"7", ":", "5">>,
        Weather_conditions |-> "Rain", Number_of_Casualties |-> 2],
       [Accident_Index |-> NA, Date |-> <<>>, Time |-> <<"2", "4", ":", "0", "0">>,
        Weather_conditions |-> "Rain", Number_of_Casualties |-> 1],
       [Accident_Index |-> "A2", Date |-> Date4, Time |-> <<>>,
        Weather_conditions |-> NA, Number_of_Casualties |-> 3],
       [Accident_Index |-> "A2", Date |-> BadDate, Time |-> <<"1", "7", ":", "3", "0">>,
        Weather_conditions |-> "Clear", Number_of_Casualties |-> 1] >>

BikersFile ==
    << [Accident_Index |-> "A1", Gender |-> "Male", Severity |-> "Fatal",
        Age_Grp |-> "26 to 35"],
       [Accident_Index |-> "A1", Gender |-> "Female", Severity |-> NA,
        Age_Grp |-> "6 to 10"],
       [Accident_Index |-> "A2", Gender |-> NA, Severity |-> "Serious",
        Age_Grp |-> "26 to 35"],
       [Accident_Index |-> NA, Gender |-> "Male", Severity |-> "Slight",
        Age_Grp |-> NA] >>

\* the tables of at most MaxRows rows of a file, in file order
Excerpts(file) ==
    {SeqFilter(file, S) : S \in {T \in SUBSET (1..Len(file)) : Cardinality(T) <= MaxRows}}

NoTable == <<>>
NoCounts == <<>>
NoWidgets == [set |-> FALSE, year_range |-> <<0, 0>>, severity |-> {},
              gender_filter |-> {}, weather |-> {}, age_groups |-> {}]
NoRate == [num |-> 0, den |-> 1]

Init ==
    /\ accidents \in Excerpts(AccidentsFile)
    /\ bikers \in Excerpts(BikersFile)
    /\ pc = "start"
    /\ err = 0
    /\ df = NoTable
    /\ severity_dist = NoCounts
    /\ yearly = NoCounts
    /\ hourly = NoCounts
    /\ severity_counts = NoCounts
    /\ cache = <<>>
    /\ loads = 0
    /\ widgets = NoWidgets
    /\ filtered = NoTable
    /\ fatality_rate = NoRate
    /\ weekday = NoCounts
    /\ clicks = 0

dashboardVars == <<cache, loads, widgets, filtered, fatality_rate, weekday, clicks>>
reportVars == <<severity_dist, yearly, hourly, severity_counts>>

(***************************************************************************)
(* EDA.py, top to bottom.                                                  *)
(***************************************************************************)
\* lines 9-12: read both files and merge them (raising on key columns of
\* different dtypes)
ReportMerge ==
    /\ pc = "start"
    /\ IF MergeRaises(accidents, bikers)
       THEN df' = df /\ pc' = "raised" /\ err' = 12
       ELSE df' = Merge(accidents, bikers) /\ pc' = "merged" /\ err' = err
    /\ UNCHANGED <<accidents, bikers, reportVars, dashboardVars>>

\* lines 14-18: parse the dates (raising on an unparseable one), derive the fields
ReportDerive ==
    /\ pc = "merged"
    /\ IF DatesParse(df)
       THEN df' = DeriveFields(df) /\ pc' = "derived" /\ err' = err
       ELSE df' = df /\ pc' = "raised" /\ err' = 14
    /\ UNCHANGED <<accidents, bikers, reportVars, dashboardVars>>

\* lines 20-49: the descriptive statistics
ReportDescribe ==
    /\ pc = "derived"
    /\ severity_dist' = ValueCounts(df, "Severity")
    /\ pc' = "described"
    /\ UNCHANGED <<accidents, bikers, err, df, yearly, hourly, severity_counts, dashboardVars>>

\* line 66
severity_order == <<"Fatal", "Serious", "Slight">>

\* lines 73-76: the label of a bar is int(height); int() of a NaN raises
BarLabelsRaise(counts) == \E i \in 1..Len(counts) : counts[i].count = NaN

\* lines 51-98: the grouped counts behind the four charts
ReportCharts ==
    /\ pc = "described"
    /\ yearly' = GroupBySize(df, "Year")
    /\ severity_counts' = Reindex(ValueCounts(df, "Severity"), severity_order)
    /\ IF BarLabelsRaise(severity_counts')
       THEN hourly' = hourly /\ pc' = "raised" /\ err' = 76
       ELSE hourly' = GroupBySize(df, "Hour") /\ pc' = "charted" /\ err' = err
    /\ UNCHANGED <<accidents, bikers, df, severity_dist, dashboardVars>>

\* lines 100-149: idxmax() of an empty Series raises (115, 127), and so does
\* index[0] of an empty value_counts() (143)
InsightsError ==
    IF DOMAIN yearly = {} THEN 115
    ELSE IF DOMAIN hourly = {} THEN 127
    ELSE IF Present(df, "Age_Grp") = {} THEN 143
    ELSE 0

ReportInsights ==
    /\ pc = "charted"
    /\ err' = InsightsError
    /\ pc' = IF InsightsError = 0 THEN "done" ELSE "raised"
    /\ UNCHANGED <<accidents, bikers, df, reportVars, dashboardVars>>

NextReport ==
    \/ ReportMerge
    \/ ReportDerive
    \/ ReportDescribe
    \/ ReportCharts
    \/ ReportInsights

SpecReport == Init /\ [][NextReport]_vars

(***************************************************************************)
(* dashboard.py.  Streamlit runs the script top to bottom on the first     *)
(* visit and again after every widget change; widget values and the       *)
(* st.cache_data entry of load_data outlive a run.                         *)
(***************************************************************************)
SliderDefaultLo == 2010
SliderDefaultHi == 2018
WeatherOptionsMax == 10
WeatherDefaultMax == 5

\* lines 16-29: the line of load_data that raises, 0 if none does: the merge
\* (21) on key columns of different dtypes, to_datetime (23) on a Date that
\* does not parse
LoadDataError(acc, bik) ==
    IF MergeRaises(acc, bik) THEN 21
    ELSE IF ~DatesParse(Merge(acc, bik)) THEN 23
    ELSE 0

\* lines 16-29: the body of load_data
LoadData(acc, bik) ==
    LET joined == Merge(acc, bik)
    IN  IF MergeRaises(acc, bik) \/ ~DatesParse(joined)
        THEN ValueError
        ELSE DeriveFields(joined)

\* Series.unique(): the values of a column in order of first appearance
RECURSIVE UniqueOf(_, _)
UniqueOf(values, seen) ==
    IF values = <<>> THEN <<>>
    ELSE IF Head(values) \in seen THEN UniqueOf(Tail(values), seen)
    ELSE <<Head(values)>> \o UniqueOf(Tail(values), seen \cup {Head(values)})

Unique(table, col) == UniqueOf([i \in 1..Len(table) |-> table[i][col]], {})

\* Series.dropna().unique()
DropnaUnique(table, col) == Unique(SeqFilter(table, Present(table, col)), col)

\* values[:n]
FirstN(values, n) == SubSeq(values, 1, IF Len(values) < n THEN Len(values) ELSE n)

Years(table) == {table[i].Year : i \in Present(table, "Year")}

\* lines 39-45: st.slider widens [min_value, max_value] to hold the default value
SliderBounds(d) ==
    <<IF SetMin(Years(d)) < SliderDefaultLo THEN SetMin(Years(d)) ELSE SliderDefaultLo,
      IF SetMax(Years(d)) > SliderDefaultHi THEN SetMax(Years(d)) ELSE SliderDefaultHi>>

\* lines 47-69: the options of the four multiselects
SeverityOptions(d) == Range(Unique(d, "Severity"))
GenderOptions(d) == Range(DropnaUnique(d, "Gender"))
WeatherOptions(d) == Range(FirstN(DropnaUnique(d, "Weather_conditions"), WeatherOptionsMax))
AgeOptions(d) == Range(DropnaUnique(d, "Age_Grp"))

\* lines 39-69: the widget values of a first run
DefaultWidgets(d) ==
    [set |-> TRUE,
     year_range |-> <<SliderDefaultLo, SliderDefaultHi>>,
     severity |-> SeverityOptions(d),
     gender_filter |-> GenderOptions(d),
     weather |-> Range(FirstN(DropnaUnique(d, "Weather_conditions"), WeatherDefaultMax)),
     age_groups |-> AgeOptions(d)]

\* one widget change: one handle of the slider moved, or one option of one
\* multiselect selected or deselected
Toggle(selection, option) ==
    IF option \in selection THEN selection \ {option} ELSE selection \cup {option}

\* dragging one handle of the range slider: the other end stays
SliderMoves(d, range) ==
    {<<lo, range[2]>> : lo \in SliderBounds(d)[1]..range[2]}
    \cup {<<range[1], hi>> : hi \in range[1]..SliderBounds(d)[2]}

WidgetChanges(d, w) ==
    ( {[w EXCEPT !.year_range = r] : r \in SliderMoves(d, w.year_range)}
      \cup {[w EXCEPT !.severity = Toggle(w.severity, o)] : o \in SeverityOptions(d)}
      \cup {[w EXCEPT !.gender_filter = Toggle(w.gender_filter, o)] : o \in GenderOptions(d)}
      \cup {[w EXCEPT !.weather = Toggle(w.weather, o)] : o \in WeatherOptions(d)}
      \cup {[w EXCEPT !.age_groups = Toggle(w.age_groups, o)] : o \in AgeOptions(d)} )
    \ {w}

\* a comparison with a missing number is False
Ge(a, b) == a # NaN /\ a >= b
Le(a, b) == a # NaN /\ a <= b

\* mutant of IsIn: an empty selection means "no filter"
IsInOrAll(v, values) == values = {} \/ v \in values

\* mutant of IsIn: a missing value passes every selection
IsInOrMissing(v, values) == v = NA \/ v \in values

\* Series.isin(values): a missing value is in values iff values holds one
IsIn(v, values) == v \in values

\* mutant of Mask: the year bounds are exclusive
MaskExclusive(r, w) ==
    /\ r.Year # NaN /\ r.Year > w.year_range[1]
    /\ r.Year # NaN /\ r.Year < w.year_range[2]
    /\ IsIn(r.Severity, w.severity)
    /\ IsIn(r.Gender, w.gender_filter)
    /\ IsIn(r.Weather_conditions, w.weather)
    /\ IsIn(r.Age_Grp, w.age_groups)

\* lines 71-78: the boolean mask of one row
Mask(r, w) ==
    /\ Ge(r.Year, w.year_range[1])
    /\ Le(r.Year, w.year_range[2])
    /\ IsIn(r.Severity, w.severity)
    /\ IsIn(r.Gender, w.gender_filter)
    /\ IsIn(r.Weather_conditions, w.weather)
    /\ IsIn(r.Age_Grp, w.age_groups)

\* mutant of FilterStatement: the rows are dropped from df in place
FilterStatementInPlace(d, w) ==
    [df |-> SeqFilter(d, {i \in 1..Len(d) : Mask(d[i], w)}),
     filtered |-> SeqFilter(d, {i \in 1..Len(d) : Mask(d[i], w)})]

\* lines 71-78: df[mask] is a new table; df keeps its rows
FilterStatement(d, w) ==
    [df |-> d,
     filtered |-> SeqFilter(d, {i \in 1..Len(d) : Mask(d[i], w)})]

\* lines 84-90: a / b on Python ints; b = 0 raises ZeroDivisionError
ZeroDivisionError == [num |-> 0, den |-> 0]
Quotient(a, b) == IF b = 0 THEN ZeroDivisionError ELSE [num |-> a, den |-> b]

CountFatal(f) == Cardinality({i \in 1..Len(f) : f[i].Severity = "Fatal"})

\* mutant of FatalityRate: no guard for the empty table
FatalityRateUnguarded(f) == Quotient(CountFatal(f) * 100, Len(f))

\* line 90
FatalityRate(f) ==
    IF Len(f) > 0 THEN Quotient(CountFatal(f) * 100, Len(f)) ELSE [num |-> 0, den |-> 1]

\* whether the Month column is float64: a NaT anywhere in df['Date'] makes it so
MonthIsFloat(d) == \E i \in 1..Len(d) : d[i].Month = NaN

\* lines 98-390: month_names[x-1] with a float x raises TypeError (114)
TabsError(d, f) ==
    IF MonthIsFloat(d) /\ DOMAIN GroupBySize(f, "Month") # {} THEN 114 ELSE 0

\* line 134
day_order == <<"Monday", "Tuesday", "Wednesday", "Thursday", "Friday", "Saturday", "Sunday">>

\* lines 392-493: idxmax()/idxmin() of an empty Series raises ValueError
StatisticsError(f) ==
    IF DOMAIN GroupBySize(f, "Hour") = {} THEN 414
    ELSE IF DOMAIN GroupBySize(f, "Month") = {} THEN 416
    ELSE IF DOMAIN ValueCounts(f, "Weekday") = {} THEN 417
    ELSE IF DOMAIN ValueCounts(f, "Age_Grp") = {} THEN 491
    ELSE IF DOMAIN ValueCounts(f, "Gender") = {} THEN 492
    ELSE 0

\* a load_data without the cache decorator
NeverCached(c) == FALSE

\* line 16: st.cache_data serves the call from its entry when it has one
CacheHit(c) == c # <<>>

\* lines 16-31: df = load_data(), served from the cache after the first success
DashLoad ==
    /\ pc = "start"
    /\ IF CacheHit(cache)
       THEN df' = cache[1] /\ cache' = cache /\ loads' = loads
            /\ pc' = "loaded" /\ err' = err
       ELSE IF LoadDataError(accidents, bikers) = 0
       THEN /\ df' = LoadData(accidents, bikers)
            /\ cache' = <<LoadData(accidents, bikers)>>
            /\ loads' = loads + 1
            /\ pc' = "loaded" /\ err' = err
       ELSE df' = df /\ cache' = cache /\ loads' = loads + 1
            /\ pc' = "raised" /\ err' = LoadDataError(accidents, bikers)
    /\ UNCHANGED <<accidents, bikers, reportVars, widgets, filtered, fatality_rate, weekday,
                   clicks>>

\* lines 33-69: the title and the sidebar; int(nan) raises ValueError (41)
DashSidebar ==
    /\ pc = "loaded"
    /\ IF Years(df) = {}
       THEN widgets' = widgets /\ pc' = "raised" /\ err' = 41
       ELSE /\ widgets' = IF widgets.set THEN widgets ELSE DefaultWidgets(df)
            /\ pc' = "sidebar" /\ err' = err
    /\ UNCHANGED <<accidents, bikers, reportVars, df, cache, loads, filtered, fatality_rate,
                   weekday, clicks>>

\* lines 71-94: the filtered table and the five metrics
DashFilter ==
    /\ pc = "sidebar"
    /\ df' = FilterStatement(df, widgets).df
    /\ filtered' = FilterStatement(df, widgets).filtered
    /\ fatality_rate' = FatalityRate(filtered')
    /\ IF fatality_rate' = ZeroDivisionError
       THEN pc' = "raised" /\ err' = 90
       ELSE pc' = "metrics" /\ err' = err
    /\ UNCHANGED <<accidents, bikers, reportVars, cache, loads, widgets, weekday, clicks>>

\* lines 96-505: the five tabs and the sidebar footer
DashTabs ==
    /\ pc = "metrics"
    /\ err' = IF TabsError(df, filtered) # 0 THEN TabsError(df, filtered)
              ELSE StatisticsError(filtered)
    /\ pc' = IF TabsError(df, filtered) = 0 /\ StatisticsError(filtered) = 0
             THEN "done" ELSE "raised"
    /\ weekday' = IF TabsError(df, filtered) # 0 THEN weekday
                  ELSE Reindex(ValueCounts(filtered, "Weekday"), day_order)
    /\ UNCHANGED <<accidents, bikers, reportVars, df, cache, loads, widgets, filtered,
                   fatality_rate, clicks>>

\* the user changes one sidebar widget; Streamlit reruns the script
Interact ==
    /\ pc \in {"done", "raised"}
    /\ widgets.set
    /\ clicks < MaxInteractions
    /\ widgets' \in WidgetChanges(df, widgets)
    /\ clicks' = clicks + 1
    /\ pc' = "start"
    /\ err' = 0
    /\ df' = NoTable
    /\ filtered' = NoTable
    /\ fatality_rate' = NoRate
    /\ weekday' = NoCounts
    /\ UNCHANGED <<accidents, bikers, reportVars, cache, loads>>

Next ==
    \/ DashLoad
    \/ DashSidebar
    \/ DashFilter
    \/ DashTabs
    \/ Interact

Spec == Init /\ [][Next]_vars

(***************************************************************************)
(* The Field Deriver on its own: EDA.py on one accident whose Time cell is *)
(* any text of at most MaxTimeLen characters, joined with three bikers of  *)
(* that accident, one of each severity.                                    *)
(***************************************************************************)
TimeAlphabet == {"0", "2", "6", ":"}

TimeCells == UNION {[1..n -> TimeAlphabet] : n \in 0..MaxTimeLen}

DateCells == {Date1, Date2, <<>>, BadDate}

InitDerive ==
    /\ \E t \in TimeCells, d \in DateCells :
          accidents = <<[AccidentsFile[1] EXCEPT !.Time = t, !.Date = d]>>
    /\ bikers = [i \in 1..Len(severity_order) |->
                    [BikersFile[1] EXCEPT !.Severity = severity_order[i]]]
    /\ pc = "start"
    /\ err = 0
    /\ df = NoTable
    /\ severity_dist = NoCounts
    /\ yearly = NoCounts
    /\ hourly = NoCounts
    /\ severity_counts = NoCounts
    /\ cache = <<>>
    /\ loads = 0
    /\ widgets = NoWidgets
    /\ filtered = NoTable
    /\ fatality_rate = NoRate
    /\ weekday = NoCounts
    /\ clicks = 0

SpecDerive == InitDerive /\ [][NextReport]_vars

(***************************************************************************)
(* Properties of the dashboard's Filter Engine and metrics (Spec).         *)
(***************************************************************************)
\* the run has executed lines 71-94
FilterRan == pc \in {"metrics", "done"} \/ (pc = "raised" /\ err \notin {21, 23, 41})

\* the run has executed df = load_data() successfully
Loaded == pc \in {"loaded", "sidebar", "metrics", "done"}
             \/ (pc = "raised" /\ err \notin {21, 23})

InYearRange(r) ==
    /\ r.Year # NaN
    /\ widgets.year_range[1] <= r.Year
    /\ r.Year <= widgets.year_range[2]

InSelections(r) ==
    /\ r.Severity \in widgets.severity
    /\ r.Gender \in widgets.gender_filter
    /\ r.Weather_conditions \in widgets.weather
    /\ r.Age_Grp \in widgets.age_groups

\* C1: the filtered table holds exactly the rows of the canonical table whose
\* Year lies in the inclusive range and whose Severity, Gender,
\* Weather_conditions and Age_Grp are each in their selected set, in
\* canonical order
C1_FilterConjunction ==
    FilterRan =>
        filtered = SeqFilter(df, {i \in 1..Len(df) : InYearRange(df[i]) /\ InSelections(df[i])})

\* two rows that are not neighbours pass, and the row between them does not
C1_Witness ==
    /\ FilterRan
    /\ Len(df) >= 3
    /\ filtered = <<df[1], df[3]>>

\* C2: an empty selection in any one of the four multiselects leaves no row
C2_FilterEmptiness ==
    (FilterRan /\ \/ widgets.severity = {}
                  \/ widgets.gender_filter = {}
                  \/ widgets.weather = {}
                  \/ widgets.age_groups = {})
        => filtered = <<>>

\* one selection is empty, and a row passes every other dimension
C2_Witness ==
    /\ FilterRan
    /\ widgets.severity = {}
    /\ \E i \in 1..Len(df) :
          /\ InYearRange(df[i])
          /\ df[i].Gender \in widgets.gender_filter
          /\ df[i].Weather_conditions \in widgets.weather
          /\ df[i].Age_Grp \in widgets.age_groups
    /\ filtered = <<>>

\* C3: a filtered row has a Year, and a missing Severity, Gender,
\* Weather_conditions or Age_Grp only if the missing value is selected
C3_NullExclusion ==
    FilterRan =>
        \A i \in 1..Len(filtered) :
            /\ filtered[i].Year # NaN
            /\ filtered[i].Severity = NA => NA \in widgets.severity
            /\ filtered[i].Gender = NA => NA \in widgets.gender_filter
            /\ filtered[i].Weather_conditions = NA => NA \in widgets.weather
            /\ filtered[i].Age_Grp = NA => NA \in widgets.age_groups

\* a row without Gender is left out although its Year is in range, while a
\* row without Severity is shown because the missing value is selected
C3_Witness ==
    /\ FilterRan
    /\ \E i \in 1..Len(df) : df[i].Gender = NA /\ InYearRange(df[i])
    /\ \A i \in 1..Len(filtered) : filtered[i].Gender # NA
    /\ \E i \in 1..Len(filtered) : filtered[i].Severity = NA

\* C4: after any sequence of filter changes the canonical table, in the
\* cache and in the run, is the table load_data built from the files, and
\* the filtered table depends on that table and the widget values only
C4_FilterIsPure ==
    /\ cache # <<>> => cache[1] = LoadData(accidents, bikers)
    /\ (Loaded /\ cache # <<>>) => df = cache[1]
    /\ (FilterRan /\ cache # <<>>) =>
           filtered = SeqFilter(cache[1],
                                {i \in 1..Len(cache[1]) : InYearRange(cache[1][i])
                                                          /\ InSelections(cache[1][i])})

\* the second filter change of a session leaves some rows out and keeps others
C4_Witness ==
    /\ FilterRan
    /\ clicks = 2
    /\ Len(filtered) > 0
    /\ Len(filtered) < Len(df)

\* C8: the fatality rate is 0 for an empty filtered table and
\* 100 * fatal / rows otherwise, and its division never has a zero divisor
C8_FatalityRate ==
    FilterRan =>
        /\ fatality_rate.den # 0
        /\ Len(filtered) = 0 => fatality_rate.num = 0
        /\ Len(filtered) > 0 =>
              fatality_rate.num * Len(filtered) =
                  100 * Cardinality({i \in 1..Len(filtered) : filtered[i].Severity = "Fatal"})
                      * fatality_rate.den

\* the metrics were computed for an empty filtered table of a non-empty dataset
C8_Witness ==
    /\ FilterRan
    /\ Len(df) > 0
    /\ Len(filtered) = 0
    /\ fatality_rate.num = 0

\* C9: a run whose filter selects zero rows completes without raising
C9_EmptyFilterCompletes ==
    (FilterRan /\ Len(filtered) = 0) => pc # "raised"

(***************************************************************************)
(* Properties of the Joiner, the Field Deriver and the report's grouped    *)
(* counts (SpecReport, SpecDerive).                                        *)
(***************************************************************************)
Keys(table) == {table[i].Accident_Index : i \in 1..Len(table)}

\* the run is past line 12: df is the joined table
Joined == pc \notin {"start", "raised"} \/ (pc = "raised" /\ err # 12)

\* C5: every joined row has a key that is present, that occurs in both files,
\* and every present key that occurs in both files is in the joined table
C5_JoinCorrectness ==
    Joined =>
        /\ \A i \in 1..Len(df) :
              /\ df[i].Accident_Index # NA
              /\ df[i].Accident_Index \in Keys(accidents)
              /\ df[i].Accident_Index \in Keys(bikers)
        /\ \A k \in (Keys(accidents) \cap Keys(bikers)) \ {NA} : k \in Keys(df)

\* C6: a joined row whose Date cannot be parsed does not abort the run; the
\* row stays, with Year, Month and Weekday missing, and every other row has
\* the fields of its own Date
C6_BadDateTolerated ==
    (Joined /\ pc # "merged") =>
        /\ ~(pc = "raised" /\ err = 14)
        /\ Len(df) = Len(Merge(accidents, bikers))
        /\ \A i \in 1..Len(df) :
              IF DateParses(Merge(accidents, bikers)[i].Date)
              THEN df[i].Year = DtYear(ToDatetime(Merge(accidents, bikers)[i].Date))
              ELSE df[i].Year = NaN /\ df[i].Month = NaN /\ df[i].Weekday = NA

\* the Field Deriver has run on the one joined row of SpecDerive
Derived == pc \in {"derived", "described", "charted", "done"}
    \/ (pc = "raised" /\ err \notin {12, 14})

\* HH:MM read strictly: two digits, a colon, two digits, 00-23 and 00-59
StrictHHMM(cell) ==
    /\ Len(cell) = 5
    /\ cell[3] = ":"
    /\ AllDigits(SubSeq(cell, 1, 2)) /\ AllDigits(SubSeq(cell, 4, 5))
    /\ Num(SubSeq(cell, 1, 2)) <= 23
    /\ Num(SubSeq(cell, 4, 5)) <= 59

\* the hours h such that cell is h, a colon and a minute, each written with
\* one or two digits, h in 0..23 and the minute in 0..59
HoursOf(cell) ==
    {Num(SubSeq(cell, 1, k - 1)) : k \in
        {j \in 2..Len(cell) - 1 :
            /\ cell[j] = ":"
            /\ j - 1 <= 2 /\ Len(cell) - j <= 2
            /\ AllDigits(SubSeq(cell, 1, j - 1))
            /\ AllDigits(SubSeq(cell, j + 1, Len(cell)))
            /\ Num(SubSeq(cell, 1, j - 1)) <= 23
            /\ Num(SubSeq(cell, j + 1, Len(cell))) <= 59}}

\* the Year, Month and Weekday of the Date cells of SpecDerive
DateFields(cell) ==
    IF cell = Date1 THEN <<2010, 3, "Monday">>
    ELSE IF cell = Date2 THEN <<2018, 12, "Monday">>
    ELSE <<NaN, NaN, NA>>

\* C7 as stated: a Time that is not strictly HH:MM gives a missing Hour, a
\* Time that is gives its HH; the row is kept and its date fields are those
\* of its Date
C7_StrictTime ==
    (Derived /\ DateParses(accidents[1].Date)) =>
        /\ Len(df) = Len(bikers)
        /\ \A i \in 1..Len(df) :
              /\ IF StrictHHMM(accidents[1].Time)
                 THEN /\ df[i].Hour = Num(SubSeq(accidents[1].Time, 1, 2))
                      /\ df[i].Hour \in 0..23
                 ELSE df[i].Hour = NaN
              /\ <<df[i].Year, df[i].Month, df[i].Weekday>> = DateFields(accidents[1].Date)

\* C7 amended: the pattern is %H:%M, whose hour and minute have one or two
\* digits each
C7_TimeTolerance ==
    (pc \notin {"start", "merged"} /\ DateParses(accidents[1].Date)) =>
        /\ pc = "raised" => err \notin 14..18
        /\ Len(df) = Len(bikers)
        /\ \A i \in 1..Len(df) :
              /\ IF HoursOf(accidents[1].Time) = {}
                 THEN df[i].Hour = NaN
                 ELSE df[i].Hour \in HoursOf(accidents[1].Time) /\ df[i].Hour \in 0..23
              /\ <<df[i].Year, df[i].Month, df[i].Weekday>> = DateFields(accidents[1].Date)

\* a Time that is no time was coerced: the row is there, without an Hour
\* and with the fields of its Date
C7_Witness ==
    /\ Derived
    /\ accidents[1].Time = <<"2", "6", ":", "0", "0">>
    /\ accidents[1].Date = Date1
    /\ Len(df) = Len(bikers)
    /\ \A i \in 1..Len(df) : df[i].Hour = NaN /\ df[i].Year = 2010

\* the run is past line 31 (severity_dist), line 55 (yearly), line 78 (hourly)
Described == pc \in {"described", "charted", "done"}
    \/ (pc = "raised" /\ err \notin {12, 14})
YearlyGrouped == pc \in {"charted", "done"}
    \/ (pc = "raised" /\ err \notin {12, 14})
Aggregated == pc \in {"charted", "done"}
    \/ (pc = "raised" /\ err \notin {12, 14, 76})

\* C10 as stated: the counts by Severity, by Year and by Hour each sum to
\* the number of rows of the canonical table
C10_TotalsConservation ==
    Aggregated =>
        /\ Total(severity_dist) = Len(df)
        /\ Total(yearly) = Len(df)
        /\ Total(hourly) = Len(df)

\* C10 amended: each sums to the number of rows whose grouping column is
\* present, hence to the number of rows when none is missing
C10_TotalsOfPresentRows ==
    /\ Described =>
        /\ Total(severity_dist) = Cardinality({i \in 1..Len(df) : df[i].Severity # NA})
        /\ (\A i \in 1..Len(df) : df[i].Severity # NA) => Total(severity_dist) = Len(df)
    /\ YearlyGrouped =>
        /\ Total(yearly) = Cardinality({i \in 1..Len(df) : df[i].Year # NaN})
        /\ (\A i \in 1..Len(df) : df[i].Year # NaN) => Total(yearly) = Len(df)
    /\ Aggregated =>
        /\ Total(hourly) = Cardinality({i \in 1..Len(df) : df[i].Hour # NaN})
        /\ (\A i \in 1..Len(df) : df[i].Hour # NaN) => Total(hourly) = Len(df)

\* a table of several rows, some without an Hour, was grouped: the hourly
\* counts sum to less than the rows, the severity counts to all of them
C10_Witness ==
    /\ Aggregated
    /\ Len(df) >= 2
    /\ Total(severity_dist) = Len(df)
    /\ 0 < Total(hourly) /\ Total(hourly) < Len(df)

\* the run is past line 67: severity_counts is the reindexed Series
Reindexed == pc \in {"charted", "done"}
    \/ (pc = "raised" /\ err \notin {12, 14})

\* C11: the severity counts reindexed against the three severities have one
\* entry per severity, in the order Fatal, Serious, Slight, and the entry of
\* a severity that no row has is the count 0
C11_ReindexFillsZero ==
    Reindexed =>
        /\ Len(severity_counts) = Len(severity_order)
        /\ \A i \in 1..Len(severity_order) :
              /\ severity_counts[i].index = severity_order[i]
              /\ severity_counts[i].count = CountRows(df, "Severity", severity_order[i])

\* the number of rows of a table whose Accident_Index is k
KeyCount(table, k) == Cardinality({i \in 1..Len(table) : table[i].Accident_Index = k})

\* C12: every key has as many joined rows as the product of its numbers of
\* Accidents rows and of Bikers rows; when no key repeats in either file,
\* the joined table has exactly one row per key the two files share
C12_JoinMultiplicity ==
    Joined =>
        /\ \A k \in Keys(accidents) \cup Keys(bikers) \cup Keys(df) :
              KeyCount(df, k) = KeyCount(accidents, k) * KeyCount(bikers, k)
        /\ (\A k \in Keys(accidents) \cup Keys(bikers) :
                KeyCount(accidents, k) <= 1 /\ KeyCount(bikers, k) <= 1)
           => /\ Len(df) = Cardinality(Keys(accidents) \cap Keys(bikers))
              /\ \A k \in Keys(accidents) \cap Keys(bikers) : KeyCount(df, k) = 1

\* a key with two Accidents rows and two Bikers rows was joined into four rows
C12_Witness ==
    /\ Joined
    /\ KeyCount(accidents, "A1") = 2
    /\ KeyCount(bikers, "A1") = 2
    /\ KeyCount(df, "A1") = 4

\* load_data ran at most once, every run after a widget change found the
\* cached table, and the run's table and filtered rows come from that table
LoadedOnce ==
    /\ loads <= 1
    /\ cache # <<>> => loads = 1
    /\ clicks > 0 => cache # <<>>
    /\ Loaded => cache # <<>> /\ df = cache[1]
    /\ FilterRan => cache # <<>> /\ Range(filtered) \subseteq Range(cache[1])
                                /\ Len(filtered) <= Len(cache[1])

\* C13: over any sequence of widget changes the body of load_data executes
\* on the first load only; once a table is cached no later run replaces it
\* or executes the body again, and every filtered table of the session is a
\* part of that one table
C13_LoadOnce ==
    /\ []LoadedOnce
    /\ [][cache # <<>> => (cache' = cache /\ loads' = loads)]_vars

\* the run after the second widget change filtered the cached table, load_data
\* having run once
C13_Witness ==
    /\ clicks >= 2
    /\ FilterRan
    /\ loads = 1
    /\ filtered # <<>>
    /\ Len(filtered) < Len(cache[1])
====
